---- MODULE Spec2Model ----
(***************************************************************************)
(* Supplier check-in application (src/app.py): the management sheet        *)
(* "proveedor_gestion" kept in a shared Excel file, the cached download    *)
(* each session works from, and the two handlers "Guardar Llegada" and     *)
(* "Guardar Atencion" that read, modify and replace the sheet.             *)
(*                                                                         *)
(* A datetime is the number of seconds since midnight of day 0.  A stored  *)
(* timestamp is the text 'YYYY-MM-DD HH:MM:SS', modelled by its fields     *)
(* <<day, hour, minute, second>>.  An optional cell is <<>> (None / NaN)   *)
(* or <<v>>.  A text such as the booked range is a sequence of characters. *)
(***************************************************************************)
EXTENDS Integers, Sequences, FiniteSets, TLC

VARIABLES store, cache, today, presses, last

vars == <<store, cache, today, presses, last>>

(* ---------------- bounds ---------------- *)
MaxDay == 2
MaxMinuteIdx == 1
MaxPresses == 3

Sessions == {"s1", "s2"}
PickHours == {9}
PickMinutes == {5 * i : i \in 0..MaxMinuteIdx}

(* ---------------- optional cells ---------------- *)
None == <<>>
Some(v) == <<v>>
notna(c) == c # <<>>
isna(c) == c = <<>>

(* ---------------- the reservations sheet ---------------- *)
Reservas ==
  << [Fecha |-> 1, Hora |-> <<"0","9",":","0","2","-","0","9",":","3","2">>,
      Orden_de_compra |-> "PO100", Proveedor |-> "ACME", Numero_de_bultos |-> 10],
     [Fecha |-> 1, Hora |-> <<"i","n","v","a","l","i","d">>,
      Orden_de_compra |-> "PO200", Proveedor |-> "BETA", Numero_de_bultos |-> 4],
     [Fecha |-> 2, Hora |-> <<"0","9",":","0","5"," ","-"," ","0","9",":","3","5">>,
      Orden_de_compra |-> "PO100", Proveedor |-> "ACME", Numero_de_bultos |-> 7],
     [Fecha |-> 0, Hora |-> <<"0","9",":","0","0","-","0","9",":","3","0">>,
      Orden_de_compra |-> "PO100", Proveedor |-> "ACME", Numero_de_bultos |-> 12] >>

Orders == {Reservas[i].Orden_de_compra : i \in 1..Len(Reservas)}

(* ---------------- dates and times ---------------- *)
combine_date_time(date_part, time_part) ==
  date_part * 86400 + time_part.hour * 3600 + time_part.minute * 60

dt_time(h, m) == [hour |-> h, minute |-> m]

\* datetime.strftime('%Y-%m-%d %H:%M:%S')
strftime(dt) ==
  <<dt \div 86400, (dt % 86400) \div 3600, (dt % 3600) \div 60, dt % 60>>

\* datetime.fromisoformat(str(cell))
fromisoformat(txt) == txt[1] * 86400 + txt[2] * 3600 + txt[3] * 60 + txt[4]

\* datetime.now().strftime('%Y-%m-%d') matched with str.contains
contains_today(cell, day) == notna(cell) /\ cell[1][1] = day

\* int(x / 60): truncation toward zero
int_div60(x) == IF x >= 0 THEN x \div 60 ELSE -((-x) \div 60)

calculate_time_difference(start_datetime, end_datetime) ==
  int_div60(end_datetime - start_datetime)

(* ---------------- parse_time_range ---------------- *)
Digits == {"0","1","2","3","4","5","6","7","8","9"}
DigitVal == ("0" :> 0) @@ ("1" :> 1) @@ ("2" :> 2) @@ ("3" :> 3) @@ ("4" :> 4) @@
            ("5" :> 5) @@ ("6" :> 6) @@ ("7" :> 7) @@ ("8" :> 8) @@ ("9" :> 9)

IndexOf(txt, ch) ==
  IF \E i \in 1..Len(txt) : txt[i] = ch
  THEN CHOOSE i \in 1..Len(txt) : txt[i] = ch /\ \A j \in 1..(i-1) : txt[j] # ch
  ELSE 0

RECURSIVE strip(_)
strip(txt) ==
  IF txt = <<>> THEN txt
  ELSE IF Head(txt) = " " THEN strip(Tail(txt))
  ELSE IF txt[Len(txt)] = " " THEN strip(SubSeq(txt, 1, Len(txt) - 1))
  ELSE txt

IsNumber(txt) == Len(txt) \in {1, 2} /\ \A i \in 1..Len(txt) : txt[i] \in Digits
NumVal(txt) == IF Len(txt) = 1 THEN DigitVal[txt[1]]
               ELSE 10 * DigitVal[txt[1]] + DigitVal[txt[2]]

\* datetime.strptime(txt, '%H:%M').time(); None stands for the ValueError
strptime_HM(txt) ==
  LET c == IndexOf(txt, ":")
      hh == SubSeq(txt, 1, c - 1)
      mm == SubSeq(txt, c + 1, Len(txt))
  IN IF c > 0 /\ IsNumber(hh) /\ IsNumber(mm) /\ NumVal(hh) <= 23 /\ NumVal(mm) <= 59
     THEN Some(dt_time(NumVal(hh), NumVal(mm)))
     ELSE None

parse_time_range(time_range_str) ==
  IF IndexOf(time_range_str, "-") > 0
  THEN strptime_HM(strip(SubSeq(time_range_str, 1, IndexOf(time_range_str, "-") - 1)))
  ELSE None

(* ---------------- queries on the sheets ---------------- *)
tolist(df) == [i \in 1..Len(df) |-> df[i].Orden_de_compra]
Range(s) == {s[i] : i \in 1..Len(s)}

\* get_today_reservations without the filter on today's date
get_today_reservations_any_day(reservas_df, day) == reservas_df

get_today_reservations(reservas_df, day) ==
  SelectSeq(reservas_df, LAMBDA r : r.Fecha = day)

\* get_existing_arrivals without the filter on today's date
get_existing_arrivals_any_day(gestion_df, day) ==
  IF gestion_df = <<>> THEN <<>>
  ELSE tolist(SelectSeq(gestion_df,
                LAMBDA r : isna(r.Hora_inicio_atencion) \/ isna(r.Hora_fin_atencion)))

get_existing_arrivals(gestion_df, day) ==
  IF gestion_df = <<>> THEN <<>>
  ELSE LET today_arrivals == SelectSeq(gestion_df, LAMBDA r : contains_today(r.Hora_llegada, day))
           pending_service == SelectSeq(today_arrivals,
                LAMBDA r : isna(r.Hora_inicio_atencion) \/ isna(r.Hora_fin_atencion))
       IN tolist(pending_service)

get_completed_orders(gestion_df, day) ==
  IF gestion_df = <<>> THEN <<>>
  ELSE LET today_records == SelectSeq(gestion_df, LAMBDA r : contains_today(r.Hora_llegada, day))
           completed == SelectSeq(today_records,
                LAMBDA r : notna(r.Hora_inicio_atencion) /\ notna(r.Hora_fin_atencion))
       IN tolist(completed)

get_pending_arrivals(today_reservations, gestion_df, day) ==
  LET processed_orders == get_existing_arrivals(gestion_df, day)
                            \o get_completed_orders(gestion_df, day)
      pending == SelectSeq(today_reservations,
                   LAMBDA r : r.Orden_de_compra \notin Range(processed_orders))
  IN tolist(pending)

get_arrival_record(gestion_df, orden_compra) ==
  IF gestion_df = <<>> THEN None
  ELSE LET record == SelectSeq(gestion_df, LAMBDA r : r.Orden_de_compra = orden_compra)
       IN IF record # <<>> THEN Some(record[1]) ELSE None

(* ---------------- the cached download ---------------- *)
\* what download_excel_to_memory() returns to session s: the cached sheet,
\* or the sheet in the shared file when nothing is cached (ttl passed or cleared)
download_excel_to_memory(s) == IF cache[s] = None THEN store ELSE cache[s][1]

(* ---------------- Guardar Llegada ---------------- *)
tiempo_retraso_of(order_details, arrival_datetime, day) ==
  LET booked_start_time == parse_time_range(order_details.Hora)
  IN IF notna(booked_start_time)
     THEN Some(calculate_time_difference(
                 combine_date_time(day, booked_start_time[1]), arrival_datetime))
     ELSE None

arrival_data_of(order_details, arrival_datetime, day) ==
  [Orden_de_compra      |-> order_details.Orden_de_compra,
   Proveedor            |-> order_details.Proveedor,
   Numero_de_bultos     |-> order_details.Numero_de_bultos,
   Hora_llegada         |-> Some(strftime(arrival_datetime)),
   Hora_inicio_atencion |-> None,
   Hora_fin_atencion    |-> None,
   Tiempo_espera        |-> None,
   Tiempo_atencion      |-> None,
   Tiempo_total         |-> None,
   Tiempo_retraso       |-> tiempo_retraso_of(order_details, arrival_datetime, day)]

\* save_arrival_to_excel without the look-up of an existing record
save_arrival_always_append(gestion_df, arrival_data) == Append(gestion_df, arrival_data)

\* save_arrival_to_excel looking up the record of the order and of the day
save_arrival_per_day(gestion_df, arrival_data) ==
  IF \E i \in 1..Len(gestion_df) :
        /\ gestion_df[i].Orden_de_compra = arrival_data.Orden_de_compra
        /\ gestion_df[i].Hora_llegada[1][1] = arrival_data.Hora_llegada[1][1]
  THEN [i \in 1..Len(gestion_df) |->
          IF gestion_df[i].Orden_de_compra = arrival_data.Orden_de_compra
          THEN [gestion_df[i] EXCEPT !.Hora_llegada = arrival_data.Hora_llegada]
          ELSE gestion_df[i]]
  ELSE Append(gestion_df, arrival_data)

\* save_arrival_to_excel writing the whole new row over the existing one
save_arrival_replace_row(gestion_df, arrival_data) ==
  IF notna(get_arrival_record(gestion_df, arrival_data.Orden_de_compra))
  THEN [i \in 1..Len(gestion_df) |->
          IF gestion_df[i].Orden_de_compra = arrival_data.Orden_de_compra
          THEN arrival_data
          ELSE gestion_df[i]]
  ELSE Append(gestion_df, arrival_data)

\* the sheet save_arrival_to_excel hands to upload_excel_file
save_arrival_to_excel(gestion_df, arrival_data) ==
  IF notna(get_arrival_record(gestion_df, arrival_data.Orden_de_compra))
  THEN [i \in 1..Len(gestion_df) |->
          IF gestion_df[i].Orden_de_compra = arrival_data.Orden_de_compra
          THEN [gestion_df[i] EXCEPT !.Hora_llegada = arrival_data.Hora_llegada]
          ELSE gestion_df[i]]
  ELSE Append(gestion_df, arrival_data)

(* ---------------- Guardar Atencion ---------------- *)
\* service_data with the total measured from the service start
service_data_total_from_start(arrival_datetime, hora_inicio, hora_fin) ==
  [Hora_inicio_atencion |-> Some(strftime(hora_inicio)),
   Hora_fin_atencion    |-> Some(strftime(hora_fin)),
   Tiempo_espera        |-> Some(calculate_time_difference(arrival_datetime, hora_inicio)),
   Tiempo_atencion      |-> Some(calculate_time_difference(hora_inicio, hora_fin)),
   Tiempo_total         |-> Some(calculate_time_difference(hora_inicio, hora_fin))]

service_data_of(arrival_datetime, hora_inicio, hora_fin) ==
  [Hora_inicio_atencion |-> Some(strftime(hora_inicio)),
   Hora_fin_atencion    |-> Some(strftime(hora_fin)),
   Tiempo_espera        |-> Some(calculate_time_difference(arrival_datetime, hora_inicio)),
   Tiempo_atencion      |-> Some(calculate_time_difference(hora_inicio, hora_fin)),
   Tiempo_total         |-> Some(calculate_time_difference(arrival_datetime, hora_fin))]

\* update_service_times without the check that a row of the order exists
update_service_times_unchecked(gestion_df, orden_compra, service_data) ==
  Some([i \in 1..Len(gestion_df) |->
     IF gestion_df[i].Orden_de_compra = orden_compra
     THEN [gestion_df[i] EXCEPT
             !.Hora_inicio_atencion = service_data.Hora_inicio_atencion,
             !.Hora_fin_atencion    = service_data.Hora_fin_atencion,
             !.Tiempo_espera        = service_data.Tiempo_espera,
             !.Tiempo_atencion      = service_data.Tiempo_atencion,
             !.Tiempo_total         = service_data.Tiempo_total]
     ELSE gestion_df[i]])

\* update_service_times up to the upload: None when it returns False without
\* uploading (empty sheet, or no row of the order), else the sheet it uploads
update_service_times(gestion_df, orden_compra, service_data) ==
  IF gestion_df = <<>> THEN None
  ELSE IF ~(\E i \in 1..Len(gestion_df) : gestion_df[i].Orden_de_compra = orden_compra)
  THEN None
  ELSE Some([i \in 1..Len(gestion_df) |->
     IF gestion_df[i].Orden_de_compra = orden_compra
     THEN [gestion_df[i] EXCEPT
             !.Hora_inicio_atencion = service_data.Hora_inicio_atencion,
             !.Hora_fin_atencion    = service_data.Hora_fin_atencion,
             !.Tiempo_espera        = service_data.Tiempo_espera,
             !.Tiempo_atencion      = service_data.Tiempo_atencion,
             !.Tiempo_total         = service_data.Tiempo_total]
     ELSE gestion_df[i]])

\* the validation of Guardar Atencion: "ok" or the error shown
validate_service(arrival_datetime, hora_inicio, hora_fin) ==
  IF hora_inicio >= hora_fin THEN "end_not_after_start"
  ELSE IF hora_inicio < arrival_datetime THEN "start_before_arrival"
  ELSE "ok"

(* ---------------- the state machine ---------------- *)
\* what the last run of main() did and showed: the button, the session that
\* pressed it, the order selected, the message, and whether the handler found
\* a record of the order
Event(op, s, o, result, found) ==
  [op |-> op, session |-> s, order |-> o, result |-> result, found |-> found]

NoEvent == Event("none", "s1", "PO100", "ok", FALSE)

Init ==
  /\ store = <<>>
  /\ cache = [s \in Sessions |-> None]
  /\ today = 1
  /\ last = NoEvent
  /\ presses = 0

\* a run of main() with no button pressed
Render(s) ==
  /\ cache' = [cache EXCEPT ![s] = Some(download_excel_to_memory(s))]
  /\ last' = NoEvent
  /\ UNCHANGED <<store, today, presses>>

\* the ttl of st.cache_data passes
CacheExpire(s) ==
  /\ cache[s] # None
  /\ cache' = [cache EXCEPT ![s] = None]
  /\ last' = NoEvent
  /\ UNCHANGED <<store, today, presses>>

\* midnight
AdvanceDay ==
  /\ today < MaxDay
  /\ today' = today + 1
  /\ last' = NoEvent
  /\ UNCHANGED <<store, cache, presses>>

\* variant: the upload succeeds without st.cache_data.clear()
upload_excel_file_keeps_cache(s, loaded, gestion_df, ok) ==
  /\ store' = IF ok THEN gestion_df ELSE store
  /\ cache' = [cache EXCEPT ![s] = Some(loaded)]

\* upload_excel_file: replaces the shared file and clears the cache, or fails
upload_excel_file(s, loaded, gestion_df, ok) ==
  IF ok
  THEN /\ store' = gestion_df
       /\ cache' = [cache EXCEPT ![s] = None]
  ELSE /\ store' = store
       /\ cache' = [cache EXCEPT ![s] = Some(loaded)]

\* a run of main() with "Guardar Llegada" pressed.  expired: the cached
\* download is dropped between the load of main() and the load of
\* save_arrival_to_excel; ok: the upload succeeds
GuardarLlegada(s, o, h, m, expired, ok) ==
  LET gestion_df == download_excel_to_memory(s)
      today_reservations == get_today_reservations(Reservas, today)
      pending_arrivals == get_pending_arrivals(today_reservations, gestion_df, today)
      order_details == SelectSeq(today_reservations, LAMBDA r : r.Orden_de_compra = o)[1]
      arrival_datetime == combine_date_time(today, dt_time(h, m))
      arrival_data == arrival_data_of(order_details, arrival_datetime, today)
      loaded == IF expired THEN store ELSE gestion_df
  IN /\ presses < MaxPresses
     /\ today_reservations # <<>>
     /\ o \in Range(pending_arrivals)
     /\ upload_excel_file(s, loaded, save_arrival_to_excel(loaded, arrival_data), ok)
     /\ last' = Event("arrival", s, o, IF ok THEN "ok" ELSE "upload_failed",
                      notna(get_arrival_record(loaded, o)))
     /\ presses' = presses + 1
     /\ UNCHANGED today

\* a run of main() with "Guardar Atencion" pressed
GuardarAtencion(s, o, sh, sm, eh, em, expired, ok) ==
  LET gestion_df == download_excel_to_memory(s)
      today_reservations == get_today_reservations(Reservas, today)
      existing_arrivals == get_existing_arrivals(gestion_df, today)
      arrival_record == get_arrival_record(gestion_df, o)
      service_registered == notna(arrival_record[1].Hora_inicio_atencion)
                              /\ notna(arrival_record[1].Hora_fin_atencion)
      hora_inicio == combine_date_time(today, dt_time(sh, sm))
      hora_fin == combine_date_time(today, dt_time(eh, em))
      arrival_datetime == fromisoformat(arrival_record[1].Hora_llegada[1])
      verdict == validate_service(arrival_datetime, hora_inicio, hora_fin)
      service_data == service_data_of(arrival_datetime, hora_inicio, hora_fin)
      loaded == IF expired THEN store ELSE gestion_df
      updated == update_service_times(loaded, o, service_data)
      found == notna(get_arrival_record(loaded, o))
  IN /\ presses < MaxPresses
     /\ today_reservations # <<>>
     /\ o \in Range(existing_arrivals)
     /\ notna(arrival_record)
     /\ ~service_registered
     /\ IF verdict # "ok"
        THEN /\ ~expired /\ ok
             /\ store' = store
             /\ cache' = [cache EXCEPT ![s] = Some(gestion_df)]
             /\ last' = Event("service", s, o, verdict, TRUE)
        ELSE IF isna(updated)
        THEN /\ ok
             /\ store' = store
             /\ cache' = [cache EXCEPT ![s] = Some(loaded)]
             /\ last' = Event("service", s, o, "not_found", found)
        ELSE /\ upload_excel_file(s, loaded, updated[1], ok)
             /\ last' = Event("service", s, o, IF ok THEN "ok" ELSE "upload_failed", found)
     /\ presses' = presses + 1
     /\ UNCHANGED today

Next ==
  \/ \E s \in Sessions : Render(s)
  \/ \E s \in Sessions : CacheExpire(s)
  \/ AdvanceDay
  \/ \E s \in Sessions, o \in Orders, h \in PickHours, m \in PickMinutes,
        expired \in BOOLEAN, ok \in BOOLEAN : GuardarLlegada(s, o, h, m, expired, ok)
  \/ \E s \in Sessions, o \in Orders, sh \in PickHours, sm \in PickMinutes,
        eh \in PickHours, em \in PickMinutes, expired \in BOOLEAN, ok \in BOOLEAN :
        GuardarAtencion(s, o, sh, sm, eh, em, expired, ok)

Spec == Init /\ [][Next]_vars

(* ---------------- properties ---------------- *)
RowsOf(df, o) == {i \in 1..Len(df) : df[i].Orden_de_compra = o}
Arrival(r) == fromisoformat(r.Hora_llegada[1])
Inicio(r) == fromisoformat(r.Hora_inicio_atencion[1])
Fin(r) == fromisoformat(r.Hora_fin_atencion[1])

\* the classification of order o on a day, read off the records
Classify(df, o, day) ==
  LET rows == {i \in RowsOf(df, o) : notna(df[i].Hora_llegada) /\ df[i].Hora_llegada[1][1] = day}
  IN IF rows = {} THEN "NOT_ARRIVED"
     ELSE IF \E i \in rows : isna(df[i].Hora_inicio_atencion) \/ isna(df[i].Hora_fin_atencion)
     THEN "ARRIVED_PENDING_SERVICE"
     ELSE "COMPLETED"

Rank(c) == IF c = "NOT_ARRIVED" THEN 0 ELSE IF c = "ARRIVED_PENDING_SERVICE" THEN 1 ELSE 2

\* C1: within a day the classification of every order only moves forward,
\* NOT_ARRIVED -> ARRIVED_PENDING_SERVICE -> COMPLETED, over every step of
\* every session.
C1_ForwardOnly ==
  [][today' = today =>
       \A o \in Orders : Rank(Classify(store', o, today)) >= Rank(Classify(store, o, today))]_vars

\* C2: a service registration with end <= start, or with start earlier than
\* the arrival held by the record when the service fields are written, is
\* rejected and leaves the stored records unchanged; so a registration that
\* is accepted wrote a record with arrival <= start < end.
C2_InvalidServiceRejected ==
  [][last'.op = "service" /\ presses' # presses =>
       /\ last'.result \in {"end_not_after_start", "start_before_arrival"} => store' = store
       /\ last'.result = "ok" =>
            \A i \in RowsOf(store', last'.order) :
               Arrival(store'[i]) <= Inicio(store'[i]) /\ Inicio(store'[i]) < Fin(store'[i])]_vars

(* ---- service registration over arrival timestamps of any second ---- *)
MaxArrivalTicks == 40

\* arrival timestamps from 08:55:00 on, every 15 seconds
ArrivalInputs == {combine_date_time(1, dt_time(8, 55)) + 15 * k : k \in 0..MaxArrivalTicks}

InitCalc ==
  /\ \E a \in ArrivalInputs : store = <<arrival_data_of(Reservas[1], a, 1)>>
  /\ cache = [s \in Sessions |-> None]
  /\ today = 1
  /\ presses = 0
  /\ last = NoEvent

NextCalc ==
  \E s \in Sessions, o \in Orders, sh \in PickHours, sm \in PickMinutes,
     eh \in PickHours, em \in PickMinutes, expired \in BOOLEAN, ok \in BOOLEAN :
     GuardarAtencion(s, o, sh, sm, eh, em, expired, ok)

SpecCalc == InitCalc /\ [][NextCalc]_vars

\* C3: the durations stored by a service registration, each a difference
\* truncated to whole minutes, satisfy wait + service = total.
C3_DurationsAdd ==
  \A i \in 1..Len(store) :
     notna(store[i].Tiempo_total) =>
        store[i].Tiempo_espera[1] + store[i].Tiempo_atencion[1] = store[i].Tiempo_total[1]

\* a registered service whose arrival is not on a whole minute and whose
\* wait and service are both at least one minute
C3_Witness ==
  \E i \in 1..Len(store) :
     /\ notna(store[i].Tiempo_total)
     /\ store[i].Hora_llegada[1][4] # 0
     /\ store[i].Tiempo_espera[1] >= 1
     /\ store[i].Tiempo_atencion[1] >= 1
     /\ Arrival(store[i]) <= Inicio(store[i]) /\ Inicio(store[i]) < Fin(store[i])

\* C4: every stored record with its timestamps present has
\* arrival <= service start < service end.
C4_TimesOrdered ==
  \A i \in 1..Len(store) :
     notna(store[i].Hora_llegada) /\ notna(store[i].Hora_inicio_atencion)
       /\ notna(store[i].Hora_fin_atencion) =>
         Arrival(store[i]) <= Inicio(store[i]) /\ Inicio(store[i]) < Fin(store[i])

\* C5: registering the arrival of an order twice, with different times, on a
\* sheet that has no record of the order leaves exactly one record of it,
\* holding the later call's time; the sheet grows by one row on the first
\* call and by none on the second.
C5_TwiceOneRecord ==
  LET today_reservations == get_today_reservations(Reservas, today)
  IN \A k \in 1..Len(today_reservations), h \in PickHours, m1 \in PickMinutes, m2 \in PickMinutes :
       LET order_details == today_reservations[k]
           o == order_details.Orden_de_compra
           t1 == combine_date_time(today, dt_time(h, m1))
           t2 == combine_date_time(today, dt_time(h, m2))
           first == save_arrival_to_excel(store, arrival_data_of(order_details, t1, today))
           second == save_arrival_to_excel(first, arrival_data_of(order_details, t2, today))
       IN m1 # m2 /\ RowsOf(store, o) = {} =>
            /\ Len(first) = Len(store) + 1
            /\ Len(second) = Len(first)
            /\ Cardinality(RowsOf(second, o)) = 1
            /\ \A i \in RowsOf(second, o) : second[i].Hora_llegada = Some(strftime(t2))

\* a second arrival registration of an order has just been saved: the handler
\* found the order's record and the store holds one record of it
C5_Witness ==
  /\ last.op = "arrival" /\ last.result = "ok" /\ last.found
  /\ Cardinality(RowsOf(store, last.order)) = 1
  /\ \E i \in RowsOf(store, last.order) : store[i].Hora_llegada[1][1] = today

\* C6: what the lists offered to the user are, in terms of the
\* classification: the arrival list is today's reservations classified
\* NOT_ARRIVED, the service list the orders classified
\* ARRIVED_PENDING_SERVICE, the completed list the orders classified
\* COMPLETED; this for the stored sheet and for every cached copy of it.
C6_ListsMatchClassification ==
  \A df \in {store} \cup {cache[s][1] : s \in {x \in Sessions : cache[x] # None}} :
    LET today_reservations == get_today_reservations(Reservas, today)
        pending == get_pending_arrivals(today_reservations, df, today)
        existing == get_existing_arrivals(df, today)
        completed == get_completed_orders(df, today)
        InSheet == {df[i].Orden_de_compra : i \in 1..Len(df)}
    IN /\ Range(pending) = {o \in Range(tolist(today_reservations)) :
                               Classify(df, o, today) = "NOT_ARRIVED"}
       /\ Range(existing) = {o \in InSheet : Classify(df, o, today) = "ARRIVED_PENDING_SERVICE"}
       /\ Range(completed) = {o \in InSheet : Classify(df, o, today) = "COMPLETED"}
       /\ Len(pending) = Cardinality(Range(pending))
       /\ Len(existing) = Cardinality(Range(existing))
       /\ Len(completed) = Cardinality(Range(completed))

\* on the second day the sheet holds a record of a completed order and a
\* record whose arrival is of the day before, which is offered for arrival
C6_Witness ==
  /\ today = 2
  /\ \E i \in 1..Len(store) : store[i].Hora_llegada[1][1] = 1
                                 /\ store[i].Orden_de_compra = "PO200"
  /\ Classify(store, "PO100", today) = "COMPLETED"
  /\ get_existing_arrivals(store, today) = <<>>

\* C7: every stored duration equals the formula over the timestamps stored
\* in the same record, and none is negative.
C7_DurationsMatchTimestamps ==
  \A i \in 1..Len(store) :
     notna(store[i].Tiempo_total) =>
       /\ store[i].Tiempo_espera = Some(calculate_time_difference(Arrival(store[i]), Inicio(store[i])))
       /\ store[i].Tiempo_atencion = Some(calculate_time_difference(Inicio(store[i]), Fin(store[i])))
       /\ store[i].Tiempo_total = Some(calculate_time_difference(Arrival(store[i]), Fin(store[i])))
       /\ store[i].Tiempo_espera[1] >= 0
       /\ store[i].Tiempo_atencion[1] >= 0
       /\ store[i].Tiempo_total[1] >= 0

\* the delay a record should hold: the minutes from the booked start of the
\* order's reservation of the arrival's day to the stored arrival, absent when
\* the booked range does not parse
ExpectedDelay(r) ==
  LET day == r.Hora_llegada[1][1]
      booked == SelectSeq(Reservas,
                  LAMBDA b : b.Fecha = day /\ b.Orden_de_compra = r.Orden_de_compra)
  IN IF booked = <<>> \/ isna(parse_time_range(booked[1].Hora)) THEN None
     ELSE Some(calculate_time_difference(
                 combine_date_time(day, parse_time_range(booked[1].Hora)[1]), Arrival(r)))

\* C8: the delay of every stored record is the signed number of minutes
\* from the booked start time to the stored arrival time, or absent when the
\* booked range does not parse, also after the arrival is registered again.
C8_DelayMatchesArrival ==
  \A i \in 1..Len(store) : store[i].Tiempo_retraso = ExpectedDelay(store[i])

\* C9: a record is never deleted: an order that has a record in the store
\* has one in every later state.
C9_NeverDeleted ==
  [][\A o \in Orders : RowsOf(store, o) # {} => RowsOf(store', o) # {}]_vars

\* C10: a service registration whose handler finds no record of the order
\* in the sheet it loaded reports failure and leaves the store unchanged; and
\* every stored record with a service timestamp has an arrival time.
C10_ServiceNeedsArrival ==
  [][/\ last'.op = "service" /\ presses' # presses /\ ~last'.found =>
          last'.result = "not_found" /\ store' = store
     /\ \A i \in 1..Len(store') :
          notna(store'[i].Hora_inicio_atencion) \/ notna(store'[i].Hora_fin_atencion) =>
             notna(store'[i].Hora_llegada)]_vars

\* a service registration has just failed because the sheet the handler
\* loaded, the store, holds no record of the order offered for service
C10_Witness ==
  /\ last.op = "service" /\ last.result = "not_found" /\ ~last.found
  /\ RowsOf(store, last.order) = {}

HasReservation(o, day) ==
  \E k \in 1..Len(Reservas) : Reservas[k].Fecha = day /\ Reservas[k].Orden_de_compra = o

\* C11: an arrival is only ever registered for an order that has a
\* reservation dated today, so every stored record whose arrival date is
\* today belongs to an order with a reservation dated today.
C11_ArrivalNeedsReservation ==
  [][/\ last'.op = "arrival" /\ presses' # presses => HasReservation(last'.order, today)
     /\ \A i \in 1..Len(store') :
          store'[i].Hora_llegada[1][1] = today' =>
             HasReservation(store'[i].Orden_de_compra, today')]_vars

\* on the second day an arrival has just been saved while the store holds the
\* record of an order that has no reservation for the day and is not offered
C11_Witness ==
  /\ today = 2 /\ last.op = "arrival" /\ last.result = "ok"
  /\ RowsOf(store, "PO200") # {} /\ ~HasReservation("PO200", today)
  /\ "PO200" \notin Range(get_pending_arrivals(
                            get_today_reservations(Reservas, today), store, today))

(* ---- service registration by two sessions on an arrived order ---- *)
\* the end-of-service picker with one option more than the start picker, so
\* that two different services can follow one arrival
EndMinutes == {5 * i : i \in 0..(MaxMinuteIdx + 1)}

\* the sheet after the arrival of PO100 was registered at 09:00 of day 1
InitService ==
  /\ store = <<arrival_data_of(Reservas[1], combine_date_time(1, dt_time(9, 0)), 1)>>
  /\ cache = [s \in Sessions |-> None]
  /\ today = 1
  /\ presses = 0
  /\ last = NoEvent

NextService ==
  \/ \E s \in Sessions : Render(s)
  \/ \E s \in Sessions : CacheExpire(s)
  \/ \E s \in Sessions, o \in Orders, sh \in PickHours, sm \in PickMinutes,
        eh \in PickHours, em \in EndMinutes, expired \in BOOLEAN, ok \in BOOLEAN :
        GuardarAtencion(s, o, sh, sm, eh, em, expired, ok)

SpecService == InitService /\ [][NextService]_vars

ServiceFields(r) ==
  <<r.Hora_inicio_atencion, r.Hora_fin_atencion,
    r.Tiempo_espera, r.Tiempo_atencion, r.Tiempo_total>>

\* C12: once the service of an order is registered, no later press of
\* Guardar Atencion, by either session, changes the order's service start,
\* service end or durations.
C12_ServiceOnce ==
  [][last'.op = "service" /\ presses' # presses =>
       \A i \in RowsOf(store, last'.order) :
          notna(store[i].Hora_inicio_atencion) /\ notna(store[i].Hora_fin_atencion) =>
             \A j \in RowsOf(store', last'.order) :
                ServiceFields(store'[j]) = ServiceFields(store[i])]_vars

\* C13: the store holds at most one record per order id, in every state
\* reached by the two sessions.
C13_OneRecordPerOrder ==
  \A o \in Orders : Cardinality(RowsOf(store, o)) <= 1

\* both orders have their record, and the last press registered again the
\* arrival of an order whose record the handler found
C13_Witness ==
  /\ \A o \in Orders : Cardinality(RowsOf(store, o)) = 1
  /\ last.op = "arrival" /\ last.result = "ok" /\ last.found

\* the sheets the handler of session s can have loaded: the cached download
\* or, when none is cached or it was dropped meanwhile, the stored sheet
LoadedBy(s) == {store} \cup (IF cache[s] = None THEN {} ELSE {cache[s][1]})

\* C14: an arrival registration for an order that has a record in the sheet
\* the handler loaded saves that sheet with only the arrival time of that
\* record changed: no other field of it, no other record, no row added.
C14_ArrivalUpdateFrame ==
  [][last'.op = "arrival" /\ presses' # presses /\ last'.result = "ok" /\ last'.found =>
       \E df \in LoadedBy(last'.session) :
          /\ RowsOf(df, last'.order) # {}
          /\ Len(store') = Len(df)
          /\ \A i \in 1..Len(df) :
                IF df[i].Orden_de_compra = last'.order
                THEN store'[i] = [df[i] EXCEPT !.Hora_llegada = store'[i].Hora_llegada]
                ELSE store'[i] = df[i]]_vars

\* the arrival of an order whose record has its service times and its delay
\* has just been registered again
C14_Witness ==
  /\ last.op = "arrival" /\ last.result = "ok" /\ last.found
  /\ \E i \in RowsOf(store, last.order) :
        notna(store[i].Hora_inicio_atencion) /\ notna(store[i].Tiempo_retraso)

(* ---- a sheet that holds a record of the day before ---- *)
\* the sheet on day 1 after the arrival of PO100 was registered at 09:00 of
\* day 0 and its service never was
InitPrior ==
  /\ store = <<arrival_data_of(Reservas[4], combine_date_time(0, dt_time(9, 0)), 0)>>
  /\ cache = [s \in Sessions |-> None]
  /\ today = 1
  /\ presses = 0
  /\ last = NoEvent

SpecPrior == InitPrior /\ [][Next]_vars

\* C15: a saved service registration for order o equals the sheet the
\* handler loaded with only the service start, service end and the three
\* durations of o's record of today changed; arrival and delay of that
\* record, the records of other orders, and a record of o whose arrival is of
\* another day are as they were.
C15_ServiceFrame ==
  [][last'.op = "service" /\ presses' # presses /\ last'.result = "ok" =>
       \E df \in LoadedBy(last'.session) :
          /\ Len(store') = Len(df)
          /\ \A i \in 1..Len(df) :
                IF df[i].Orden_de_compra = last'.order /\ df[i].Hora_llegada[1][1] = today
                THEN store'[i] = [df[i] EXCEPT
                       !.Hora_inicio_atencion = store'[i].Hora_inicio_atencion,
                       !.Hora_fin_atencion    = store'[i].Hora_fin_atencion,
                       !.Tiempo_espera        = store'[i].Tiempo_espera,
                       !.Tiempo_atencion      = store'[i].Tiempo_atencion,
                       !.Tiempo_total         = store'[i].Tiempo_total]
                ELSE store'[i] = df[i]]_vars

\* C16: right after a saved arrival registration for an order that the
\* store and the session's download both classified NOT_ARRIVED today, the order is classified
\* ARRIVED_PENDING_SERVICE in the store: its record has an arrival of today
\* and no service times, also when a record of an earlier day with the same
\* order id was in the sheet.
C16_ArrivalThenPending ==
  [][/\ last'.op = "arrival" /\ presses' # presses /\ last'.result = "ok"
     /\ \A df \in LoadedBy(last'.session) :
           Classify(df, last'.order, today) = "NOT_ARRIVED"
     => Classify(store', last'.order, today) = "ARRIVED_PENDING_SERVICE"]_vars

\* C17: after a save of a session succeeds that session's cached download is
\* cleared, so its next load returns the store with the write, and an order
\* whose arrival was just registered is not offered for arrival again; after
\* a failed upload the failure is reported, the store is as it was and the
\* session's cache is not cleared.
C17_SaveClearsCache ==
  [][presses' # presses =>
       \A s \in Sessions : s = last'.session =>
          /\ last'.result = "ok" =>
                /\ cache'[s] = None
                /\ download_excel_to_memory(s)' = store'
                /\ last'.op = "arrival" =>
                      last'.order \notin
                        Range(get_pending_arrivals(get_today_reservations(Reservas, today),
                                                   download_excel_to_memory(s), today))'
          /\ last'.result = "upload_failed" =>
                /\ store' = store
                /\ cache'[s] # None]_vars

\* a save has just succeeded in one session while the other session still
\* holds a download made before it
C17_Witness ==
  /\ last.op = "arrival" /\ last.result = "ok"
  /\ cache[last.session] = None
  /\ \E s \in Sessions : cache[s] # None /\ cache[s][1] # store
====
